---------------------------- MODULE Spec2Model ----------------------------
(***************************************************************************)
(* State-machine model of zenoti_tool: the JSON-backed TemplateStore       *)
(* (templates.py), the token-caching ZenotiApiClient (client.py) and the   *)
(* template-to-request managers (booking.py, invoices.py).                 *)
(***************************************************************************)
EXTENDS Integers, Sequences, FiniteSets, TLC

VARIABLES
    file,        \* the backing file of the TemplateStore: [exists, text]
    live,        \* ghost: templates successfully added and not removed since
    token,       \* ZenotiApiClient.token (NoToken models None)
    grant,       \* ghost: issue time and expiry duration of the cached token
    now,         \* time.time()
    ticks,       \* number of clock advances between operations so far
    tokenCalls,  \* POSTs made to the token endpoint
    apiCalls,    \* requests sent to the API (session.request)
    sent,        \* the request the last operation sent to the API, if any
    last,        \* the last operation called and how it ended
    wpc,         \* position of a writer inside TemplateStore.save
    pending,     \* text json.dump has still to write to the file
    snap,        \* ghost: the collection before / after the running mutation
    obs          \* what another process's list() last observed

vars == <<file, live, token, grant, now, ticks, tokenCalls, apiCalls, sent,
          last, wpc, pending, snap, obs>>

clientVars == <<token, grant, now, ticks, tokenCalls, apiCalls>>
concVars == <<wpc, pending, snap, obs>>

(***************************************************************************)
(* Bounds of the model.                                                    *)
(***************************************************************************)
MaxTicks == 3
MaxTokenCalls == 2
MaxApiCalls == 2

(***************************************************************************)
(* JSON values.  A dict is a set of <<key, value>> pairs with unique keys. *)
(* A value is a number or a nested dict of numbers.                        *)
(***************************************************************************)
Num(n) == [kind |-> "num", num |-> n, obj |-> {}]
Obj(d) == [kind |-> "obj", num |-> 0, obj |-> d]

Keys(d) == {e[1] : e \in d}
Lookup(d, k) == (CHOOSE e \in d : e[1] = k)[2]

Names == {"basic_facial", "massage"}

PayloadAB == {<<"a", Num(1)>>, <<"b", Num(2)>>}
PayloadNested == {<<"a", Num(1)>>, <<"opt", Obj({<<"x", 1>>, <<"y", 2>>})>>}
Payloads == {{}, PayloadAB, PayloadNested}

Template(n, p) == [name |-> n, payload |-> p]
Templates == {Template(n, p) : n \in Names, p \in Payloads}

(***************************************************************************)
(* The backing file.  Its text is a sequence of JSON tokens: "[", one      *)
(* object per template, "]".                                               *)
(***************************************************************************)
OpenTok == [tok |-> "[", name |-> "", payload |-> {}]
CloseTok == [tok |-> "]", name |-> "", payload |-> {}]
ItemTok(t) == [tok |-> "{}", name |-> t.name, payload |-> t.payload]

NoFile == [exists |-> FALSE, text |-> <<>>]

\* json.dump([template.__dict__ for template in templates], fp)
Dump(templates) ==
    <<OpenTok>> \o [i \in 1..Len(templates) |-> ItemTok(templates[i])]
                \o <<CloseTok>>

\* json.load succeeds only on a complete document
WellFormed(text) ==
    /\ Len(text) >= 2
    /\ text[1] = OpenTok
    /\ text[Len(text)] = CloseTok
    /\ \A i \in 2..(Len(text) - 1) : text[i].tok = "{}"

\* [Template(**item) for item in json.load(fp)]
Parse(text) ==
    [i \in 1..(Len(text) - 2) |-> Template(text[i + 1].name, text[i + 1].payload)]

Readable(f) == f.exists /\ WellFormed(f.text)

load(f) == Parse(f.text)

\* save: open("w") and json.dump, run to completion
save(templates) == [exists |-> TRUE, text |-> Dump(templates)]

HasName(templates, n) == \E i \in 1..Len(templates) : templates[i].name = n

\* the filter of remove with its test inverted
WithoutInverted(templates, n) ==
    LET Keep(t) == t.name = n IN SelectSeq(templates, Keep)

\* [t for t in templates if t.name != name]
Without(templates, n) ==
    LET Keep(t) == t.name # n IN SelectSeq(templates, Keep)

\* TemplateStore.get: the first template with that name, or None
NoTemplate == [name |-> "", payload |-> {}]
get(f, n) ==
    LET ts == load(f)
        hits == {i \in 1..Len(ts) : ts[i].name = n}
    IN IF hits = {} THEN NoTemplate
       ELSE ts[CHOOSE i \in hits : \A j \in hits : i <= j]


(***************************************************************************)
(* Template-to-request merge (booking.py, invoices.py).                    *)
(***************************************************************************)
NoOverrides == [some |-> FALSE, dict |-> {}]
Some(d) == [some |-> TRUE, dict |-> d]
OverrideBC == {<<"b", Num(3)>>, <<"c", Num(4)>>}
OverrideOpt == {<<"opt", Obj({<<"x", 9>>})>>}
Overrides == {NoOverrides, Some({}), Some(OverrideBC), Some(OverrideOpt)}

\* update keeping the entries already there
updateKeepingOld(d, other) == d \cup {e \in other : e[1] \notin Keys(d)}

\* dict.update: the other dict's entries replace those with the same key
update(d, other) == {e \in d : e[1] \notin Keys(other)} \cup other

\* payload = template.payload.copy(); if overrides: payload.update(overrides)
merged(template, overrides) ==
    IF overrides.some /\ overrides.dict # {}
    THEN update(template.payload, overrides.dict)
    ELSE template.payload

(***************************************************************************)
(* The token endpoint's answers (the environment of _ensure_token).        *)
(***************************************************************************)
Absent == -1
ExpiresIn == {Absent, 30, 61, 3600}
Statuses == {"ok", "http_error", "transport_error"}

\* the JSON body of a token response: the token id and the expiry duration
\* are given at the top level or under "credentials", or left out
TokenBody(id, shape, e) ==
    [access_token |-> IF shape = "flat" THEN id ELSE 0,
     expires_in |-> IF shape = "flat" THEN e ELSE Absent,
     credentials |-> [access_token |-> IF shape = "nested" THEN id ELSE 0,
                      expires_in |-> IF shape = "nested" THEN e ELSE Absent]]

NoResponse == [status |-> "none", data |-> TokenBody(0, "missing", Absent),
               expires_in |-> Absent]

\* what the endpoint may answer to the POST that would issue token id
TokenResponses(id) ==
    {[status |-> "ok", data |-> TokenBody(id, sh, e), expires_in |-> e] :
        sh \in {"flat", "nested"}, e \in ExpiresIn}
    \cup {[status |-> s, data |-> TokenBody(0, "missing", Absent),
           expires_in |-> Absent] : s \in Statuses}

(***************************************************************************)
(* TokenInfo and ZenotiApiClient (client.py).                              *)
(***************************************************************************)
DefaultExpiresIn == 3600
SafetyMargin == 60

NoToken == [access_token |-> 0, expires_at |-> 0]
NoGrant == [t0 |-> 0, expires_in |-> Absent]

\* TokenInfo.from_response at time t; access_token 0 models the KeyError
from_response(data, t) ==
    LET credentials == data.credentials
        access_token == IF data.access_token # 0 THEN data.access_token
                        ELSE credentials.access_token
        expires_in == IF data.expires_in # Absent THEN data.expires_in
                      ELSE IF credentials.expires_in # Absent
                           THEN credentials.expires_in
                           ELSE DefaultExpiresIn
    IN [access_token |-> access_token,
        expires_at |-> t + expires_in - SafetyMargin]

\* is_valid with the comparison off by one
isValidInclusive(tok, t) == t <= tok.expires_at

\* TokenInfo.is_valid at time t
is_valid(tok, t) == t < tok.expires_at

\* _ensure_token trusting any cached token, expired or not
ensureTokenNoExpiry(tok, g, t, resp) ==
    IF tok # NoToken
    THEN [token |-> tok, grant |-> g, posts |-> 0, result |-> "ok",
          value |-> tok.access_token]
    ELSE IF resp.status # "ok" \/ from_response(resp.data, t).access_token = 0
    THEN [token |-> tok, grant |-> g, posts |-> 1, result |-> "HTTPError",
          value |-> 0]
    ELSE [token |-> from_response(resp.data, t),
          grant |-> [t0 |-> t, expires_in |-> resp.expires_in],
          posts |-> 1, result |-> "ok",
          value |-> from_response(resp.data, t).access_token]

\* _ensure_token asking the endpoint a second time when the first answer
\* cannot be used
ensureTokenRetrying(tok, g, t, resp) ==
    IF tok # NoToken /\ is_valid(tok, t)
    THEN [token |-> tok, grant |-> g, posts |-> 0, result |-> "ok",
          value |-> tok.access_token]
    ELSE IF resp.status # "ok" \/ from_response(resp.data, t).access_token = 0
    THEN [token |-> tok, grant |-> g, posts |-> 2, result |-> "HTTPError",
          value |-> 0]
    ELSE [token |-> from_response(resp.data, t),
          grant |-> [t0 |-> t, expires_in |-> resp.expires_in],
          posts |-> 1, result |-> "ok",
          value |-> from_response(resp.data, t).access_token]

\* ZenotiApiClient._ensure_token at time t, the endpoint answering resp if
\* asked: the token cached afterwards, the POSTs made, the outcome and the
\* access token returned
ensure_token(tok, g, t, resp) ==
    IF tok # NoToken /\ is_valid(tok, t)
    THEN [token |-> tok, grant |-> g, posts |-> 0, result |-> "ok",
          value |-> tok.access_token]
    ELSE IF resp.status = "transport_error"
    THEN [token |-> tok, grant |-> g, posts |-> 1,
          result |-> "ConnectionError", value |-> 0]
    ELSE IF resp.status = "http_error"
    THEN [token |-> tok, grant |-> g, posts |-> 1, result |-> "HTTPError",
          value |-> 0]
    ELSE LET new == from_response(resp.data, t)
         IN IF new.access_token = 0
            THEN [token |-> tok, grant |-> g, posts |-> 1,
                  result |-> "KeyError", value |-> 0]
            ELSE [token |-> new,
                  grant |-> [t0 |-> t, expires_in |-> resp.expires_in],
                  posts |-> 1, result |-> "ok", value |-> new.access_token]

(***************************************************************************)
(* Initial state: the path does not exist, no store or client was built.   *)
(***************************************************************************)
Last(op, name, overrides, force, result, tok) ==
    [op |-> op, name |-> name, overrides |-> overrides, force |-> force,
     result |-> result, token |-> tok]

NoSent == [endpoint |-> "", body |-> {}, token |-> 0]
NoObs == [kind |-> "none", templates |-> <<>>, pre |-> <<>>, post |-> <<>>]

Init ==
    /\ file = NoFile
    /\ live = {}
    /\ token = NoToken
    /\ grant = NoGrant
    /\ now = 0
    /\ ticks = 0
    /\ tokenCalls = 0
    /\ apiCalls = 0
    /\ sent = NoSent
    /\ last = Last("", "", NoOverrides, FALSE, "", 0)
    /\ wpc = "idle"
    /\ pending = <<>>
    /\ snap = [pre |-> <<>>, post |-> <<>>]
    /\ obs = NoObs

(***************************************************************************)
(* TemplateStore operations, each run to completion (templates.py).        *)
(***************************************************************************)
\* TemplateStore.__init__: a missing file is created holding []
StoreInit ==
    /\ file' = IF file.exists THEN file ELSE save(<<>>)
    /\ last' = Last("init", "", NoOverrides, FALSE, "ok", 0)
    /\ sent' = NoSent
    /\ UNCHANGED <<live, clientVars, concVars>>

\* add without its duplicate check
addedUnchecked(f, template) == save(Append(load(f), template))

\* add overwriting the stored template of the same name
addedUpsert(f, template) ==
    IF HasName(load(f), template.name)
    THEN save([i \in 1..Len(load(f)) |->
                 IF load(f)[i].name = template.name THEN template
                 ELSE load(f)[i]])
    ELSE save(Append(load(f), template))

\* the file add leaves behind: unchanged when the name is taken
added(f, template) ==
    IF HasName(load(f), template.name) THEN f
    ELSE save(Append(load(f), template))

\* TemplateStore.add
Add(template) ==
    /\ Readable(file)
    /\ file' = added(file, template)
    /\ IF HasName(load(file), template.name)
       THEN /\ last' = Last("add", template.name, NoOverrides, FALSE,
                            "ValueError", 0)
            /\ live' = live
       ELSE /\ last' = Last("add", template.name, NoOverrides, FALSE, "ok", 0)
            /\ live' = live \cup {template}
    /\ sent' = NoSent
    /\ UNCHANGED <<clientVars, concVars>>

\* the file remove leaves behind
removed(f, name) == save(Without(load(f), name))

\* TemplateStore.remove
Remove(name) ==
    /\ Readable(file)
    /\ file' = removed(file, name)
    /\ live' = {t \in live : t.name # name}
    /\ last' = Last("remove", name, NoOverrides, FALSE, "ok", 0)
    /\ sent' = NoSent
    /\ UNCHANGED <<clientVars, concVars>>

\* TemplateStore.list
List ==
    /\ file.exists
    /\ last' = Last("list", "", NoOverrides, FALSE,
                    IF WellFormed(file.text) THEN "ok" ELSE "JSONDecodeError",
                    0)
    /\ sent' = NoSent
    /\ UNCHANGED <<file, live, clientVars, concVars>>

(***************************************************************************)
(* The clock: time passes between operations; nothing else runs then.      *)
(***************************************************************************)
Ticks == {1, 3539}
SendDelays == {0, 1}

Tick(d) ==
    /\ ticks < MaxTicks
    /\ ticks' = ticks + 1
    /\ now' = now + d
    /\ UNCHANGED <<file, live, token, grant, tokenCalls, apiCalls, sent, last,
                   concVars>>

(***************************************************************************)
(* ZenotiApiClient operations (client.py).                                 *)
(***************************************************************************)
\* the answers the token endpoint may give if _ensure_token asks it now
Answers(tok) ==
    IF tok # NoToken /\ is_valid(tok, now) THEN {NoResponse}
    ELSE TokenResponses(tokenCalls + 1)

\* get_access_token ignoring force_refresh
getAccessTokenUnforced(tok, g, t, force, resp) == ensure_token(tok, g, t, resp)

\* ZenotiApiClient.get_access_token: a forced refresh drops the cached token
get_access_token(tok, g, t, force, resp) ==
    IF force THEN ensure_token(NoToken, NoGrant, t, resp)
    ELSE ensure_token(tok, g, t, resp)

GetAccessToken(force) ==
    \E resp \in Answers(IF force THEN NoToken ELSE token) :
        LET e == get_access_token(token, grant, now, force, resp)
        IN /\ tokenCalls + e.posts <= MaxTokenCalls
           /\ token' = e.token
           /\ grant' = e.grant
           /\ tokenCalls' = tokenCalls + e.posts
           /\ last' = Last("get_access_token", "", NoOverrides, force,
                           e.result, e.value)
           /\ sent' = NoSent
           /\ UNCHANGED <<file, live, now, ticks, apiCalls, concVars>>

\* how raise_for_status ends for an API answer
Outcome(api) ==
    IF api = "ok" THEN "ok"
    ELSE IF api = "http_error" THEN "HTTPError" ELSE "ConnectionError"

\* ZenotiApiClient.request: _headers() takes the token, then the request is
\* sent d seconds later
Request(op, name, overrides, body) ==
    \E resp \in Answers(token) :
        LET e == ensure_token(token, grant, now, resp)
        IN /\ tokenCalls + e.posts <= MaxTokenCalls
           /\ token' = e.token
           /\ grant' = e.grant
           /\ tokenCalls' = tokenCalls + e.posts
           /\ IF e.result # "ok"
              THEN /\ last' = Last(op, name, overrides, FALSE, e.result, 0)
                   /\ sent' = NoSent
                   /\ UNCHANGED <<now, apiCalls>>
              ELSE /\ apiCalls < MaxApiCalls
                   /\ \E d \in SendDelays, api \in Statuses :
                        /\ now' = now + d
                        /\ last' = Last(op, name, overrides, FALSE,
                                        Outcome(api), e.value)
                   /\ apiCalls' = apiCalls + 1
                   /\ sent' = [endpoint |-> op, body |-> body,
                               token |-> e.value]
           /\ UNCHANGED <<file, live, ticks, concVars>>

\* ZenotiApiClient.list_appointments
ListAppointments == Request("list_appointments", "", NoOverrides, {})

(***************************************************************************)
(* BookingManager and InvoiceManager (booking.py, invoices.py).            *)
(***************************************************************************)
\* the managers without their "not found" check
FromTemplateUnchecked(op, name, overrides) ==
    /\ Readable(file)
    /\ Request(op, name, overrides, merged(get(file, name), overrides))

\* template = self.templates.get(name); raise if None; merge; send
FromTemplate(op, name, overrides) ==
    /\ Readable(file)
    /\ LET template == get(file, name)
       IN IF template = NoTemplate
          THEN /\ last' = Last(op, name, overrides, FALSE, "not_found", 0)
               /\ sent' = NoSent
               /\ UNCHANGED <<file, live, clientVars, concVars>>
          ELSE Request(op, name, overrides, merged(template, overrides))

\* BookingManager.book_from_template
BookFromTemplate(name, overrides) ==
    FromTemplate("book_appointment", name, overrides)

\* InvoiceManager.create_from_template
CreateFromTemplate(name, overrides) ==
    FromTemplate("create_invoice", name, overrides)

(***************************************************************************)
(* The program, one operation at a time.                                   *)
(***************************************************************************)
Next ==
    \/ StoreInit
    \/ \E t \in Templates : Add(t)
    \/ \E n \in Names : Remove(n)
    \/ List
    \/ \E d \in Ticks : Tick(d)
    \/ \E force \in BOOLEAN : GetAccessToken(force)
    \/ ListAppointments
    \/ \E n \in Names, o \in Overrides : BookFromTemplate(n, o)
    \/ \E n \in Names, o \in Overrides : CreateFromTemplate(n, o)

Spec == Init /\ [][Next]_vars

(***************************************************************************)
(* The components on their own: the store's operations leave the client    *)
(* untouched and the client's leave the store untouched.                   *)
(***************************************************************************)
NextStore ==
    \/ StoreInit
    \/ \E t \in Templates : Add(t)
    \/ \E n \in Names : Remove(n)
    \/ List

SpecStore == Init /\ [][NextStore]_vars

NextClient ==
    \/ \E d \in Ticks : Tick(d)
    \/ \E force \in BOOLEAN : GetAccessToken(force)
    \/ ListAppointments

SpecClient == Init /\ [][NextClient]_vars


(***************************************************************************)
(* The managers on their own: one call of book_from_template or            *)
(* create_from_template, as a command of cli.py makes it, from every state *)
(* the store can hold (templates with distinct names, as add builds them)  *)
(* and with the credential absent, valid or expired.                       *)
(***************************************************************************)
StoreContents ==
    {<<>>} \cup {<<t>> : t \in Templates}
           \cup {<<p[1], p[2]>> :
                     p \in {q \in Templates \X Templates :
                                q[1].name # q[2].name}}

Elems(s) == {s[i] : i \in 1..Len(s)}

\* _ensure_token's result for a first token request at time 0 answered with
\* expiry duration e
Issued(e) == ensure_token(NoToken, NoGrant, 0,
                          [status |-> "ok", data |-> TokenBody(1, "flat", e),
                           expires_in |-> e])

InitManagers ==
    /\ \E s \in StoreContents : file = save(s) /\ live = Elems(s)
    /\ \/ /\ token = NoToken /\ grant = NoGrant
          /\ tokenCalls = 0 /\ now = 0 /\ ticks = 0
       \/ /\ token = Issued(Absent).token /\ grant = Issued(Absent).grant
          /\ tokenCalls = 1 /\ now = 0 /\ ticks = 0
       \/ /\ token = Issued(61).token /\ grant = Issued(61).grant
          /\ tokenCalls = 1 /\ now = 1 /\ ticks = 1
    /\ apiCalls = 0
    /\ sent = NoSent
    /\ last = Last("", "", NoOverrides, FALSE, "", 0)
    /\ wpc = "idle"
    /\ pending = <<>>
    /\ snap = [pre |-> <<>>, post |-> <<>>]
    /\ obs = NoObs

\* one call of a manager from each of these states
NextManagers ==
    /\ last.op = ""
    /\ \/ \E n \in Names, o \in Overrides : BookFromTemplate(n, o)
       \/ \E n \in Names, o \in Overrides : CreateFromTemplate(n, o)

SpecManagers == InitManagers /\ [][NextManagers]_vars

(***************************************************************************)
(* The store's file as other processes see it: save opens the file for     *)
(* writing, which empties it, and the text json.dump writes reaches the    *)
(* file in one or more flushes, the last at close.                         *)
(***************************************************************************)
\* open("w") on the way to leaving `target` behind
Rewrite(pre, target) ==
    /\ file' = [exists |-> TRUE, text |-> <<>>]
    /\ pending' = target.text
    /\ wpc' = "writing"
    /\ snap' = [pre |-> pre, post |-> load(target)]

\* TemplateStore.__init__ on a missing path
WInit ==
    /\ wpc = "idle"
    /\ ~file.exists
    /\ Rewrite(<<>>, save(<<>>))
    /\ UNCHANGED <<live, last, sent, clientVars, obs>>

\* TemplateStore.add up to the open("w") of save; a taken name raises
WAdd(template) ==
    /\ wpc = "idle"
    /\ Readable(file)
    /\ IF HasName(load(file), template.name)
       THEN UNCHANGED <<file, pending, wpc, snap>>
       ELSE Rewrite(load(file), added(file, template))
    /\ UNCHANGED <<live, last, sent, clientVars, obs>>

\* TemplateStore.remove up to the open("w") of save
WRemove(name) ==
    /\ wpc = "idle"
    /\ Readable(file)
    /\ Rewrite(load(file), removed(file, name))
    /\ UNCHANGED <<live, last, sent, clientVars, obs>>

\* the next k tokens reach the file; after the last one the file is closed
WFlush(k) ==
    /\ wpc = "writing"
    /\ k \in 1..Len(pending)
    /\ file' = [exists |-> TRUE, text |-> file.text \o SubSeq(pending, 1, k)]
    /\ pending' = SubSeq(pending, k + 1, Len(pending))
    /\ wpc' = IF k = Len(pending) THEN "idle" ELSE "writing"
    /\ UNCHANGED <<live, last, sent, clientVars, snap, obs>>

\* list() or get() of another process on the same path: both are load()
Read ==
    /\ file.exists
    /\ obs' = IF WellFormed(file.text)
              THEN [kind |-> "ok", templates |-> load(file),
                    pre |-> snap.pre, post |-> snap.post]
              ELSE [kind |-> "JSONDecodeError", templates |-> <<>>,
                    pre |-> snap.pre, post |-> snap.post]
    /\ UNCHANGED <<file, live, last, sent, clientVars, wpc, pending, snap>>

MaxFlush == 4

NextConc ==
    \/ WInit
    \/ \E t \in Templates : WAdd(t)
    \/ \E n \in Names : WRemove(n)
    \/ \E k \in 1..MaxFlush : WFlush(k)
    \/ Read

SpecConc == Init /\ [][NextConc]_vars


(***************************************************************************)
(* Properties of the TemplateStore, checked under SpecStore.               *)
(***************************************************************************)
Count(ts, t) == Cardinality({i \in 1..Len(ts) : ts[i] = t})

\* C1: from a store initialised on a non-existent path, after any sequence
\* of add and remove calls (failed adds included) list() never holds two
\* templates with the same name, and every template successfully added and
\* not removed since appears in list() exactly once.
UniqueNamesAndLiveListedOnce ==
    file.exists =>
        /\ WellFormed(file.text)
        /\ LET ts == load(file)
           IN /\ \A i, j \in 1..Len(ts) : ts[i].name = ts[j].name => i = j
              /\ \A t \in live : Count(ts, t) = 1

\* C1 witness: two templates are stored and an add has just been refused
TwoStoredAfterRefusedAdd ==
    /\ Readable(file)
    /\ Len(load(file)) = 2
    /\ Cardinality(live) = 2
    /\ last.op = "add"
    /\ last.result = "ValueError"

\* C5: add of a template whose name is already in the store fails with an
\* error and leaves the store unchanged: list() returns the same templates,
\* in the same order and with the same payloads, as before.
DuplicateAddFailsAndKeepsStore ==
    [][(last'.op = "add" /\ HasName(load(file), last'.name)) =>
          /\ last'.result = "ValueError"
          /\ file' = file
          /\ load(file') = load(file)]_vars

\* C5 witness: an add of a stored name was refused
RefusedAddOfStoredName ==
    /\ last.op = "add"
    /\ last.result = "ValueError"
    /\ Readable(file)
    /\ HasName(load(file), last.name)
    /\ Len(load(file)) = 1

RECURSIVE Others(_, _)
\* the templates of ts whose name differs from n, in their order
Others(ts, n) ==
    IF ts = <<>> THEN <<>>
    ELSE IF Head(ts).name = n THEN Others(Tail(ts), n)
         ELSE <<Head(ts)>> \o Others(Tail(ts), n)

SentTokenValidWhenSent ==
    [][apiCalls' > apiCalls =>
          /\ sent'.token = token'.access_token
          /\ now' < token'.expires_at]_vars

\* a step of get_access_token(force_refresh=False) or of an API request
PlainAccess ==
    /\ ticks' = ticks
    /\ ~last'.force
    /\ last'.op \in {"get_access_token", "list_appointments"}

\* C3: in any sequence of get_access_token(force_refresh=False) and API
\* request calls, a token-endpoint call is made exactly when there is no
\* cached token or the cached token has now >= expires_at; while the cached
\* token is valid its access_token is returned with no token-endpoint call;
\* time passing alone changes nothing: expiry is noticed on the next access.
TokenCallExactlyWhenStale ==
    [][/\ PlainAccess =>
            LET stale == token = NoToken \/ now >= token.expires_at
            IN /\ stale => tokenCalls' = tokenCalls + 1
               /\ ~stale => /\ tokenCalls' = tokenCalls
                            /\ token' = token
                            /\ last'.token = token.access_token
       /\ ticks' # ticks => token' = token /\ tokenCalls' = tokenCalls
      ]_vars

\* C3 witness: the first token expired while cached and the next API
\* request fetched the second one
RefreshedOnAccessAfterExpiry ==
    /\ last.op = "list_appointments"
    /\ last.result = "ok"
    /\ ticks > 0
    /\ tokenCalls = 2
    /\ token.access_token = 2
    /\ grant.t0 >= 3540

\* C4: get_access_token(force_refresh=True) always makes exactly one
\* token-endpoint call, whether the cached token is absent, expired or
\* valid, and the token it returns is the one that call obtained, not the
\* one cached before.
ForcedRefreshCallsOnce ==
    [][(ticks' = ticks /\ last'.op = "get_access_token" /\ last'.force) =>
          /\ tokenCalls' = tokenCalls + 1
          /\ last'.result = "ok" =>
                /\ last'.token = tokenCalls'
                /\ token'.access_token = tokenCalls'
                /\ last'.token # token.access_token]_vars

\* C4 witness: at time 0 a forced refresh returned the second token issued,
\* replacing the first
SecondTokenByForcedRefresh ==
    /\ last.op = "get_access_token"
    /\ last.force
    /\ last.result = "ok"
    /\ last.token = 2
    /\ token.access_token = 2
    /\ now = 0
    /\ grant.expires_in = Absent

\* C9: for a token issued at t0 with expiry duration expires_in (3600 when
\* the response omits it), is_valid() is true at every check time strictly
\* before t0 + expires_in - 60 and false at or after it; with expires_in =
\* 3600 the boundary is t0 + 3540.
ValidUntilSixtyBeforeExpiry ==
    token # NoToken =>
        LET duration == IF grant.expires_in = Absent THEN 3600
                        ELSE grant.expires_in
            boundary == grant.t0 + duration - 60
        IN /\ \A t \in {now, boundary - 1, boundary, boundary + 1} :
                is_valid(token, t) <=> t < boundary
           /\ duration = 3600 => boundary = grant.t0 + 3540
           /\ duration = 3600 => is_valid(token, grant.t0 + 3539)
           /\ duration = 3600 => ~is_valid(token, grant.t0 + 3540)

\* C9 witness: a token whose response omitted expires_in, checked exactly
\* 3540 seconds after it was issued
CheckedAtTheBoundary ==
    /\ token # NoToken
    /\ grant.expires_in = Absent
    /\ now = grant.t0 + 3540
    /\ ~is_valid(token, now)


(***************************************************************************)
(* Properties of the managers, checked under SpecManagers.                 *)
(***************************************************************************)
FromTemplateOps == {"book_appointment", "create_invoice"}

\* C6: book_from_template and create_from_template called with a template
\* name that is not in the store fail with a template-not-found error and
\* trigger zero HTTP calls: no token-endpoint call and no API request,
\* whatever the credential state.
MissingTemplateMakesNoHttpCall ==
    [][(last'.op \in FromTemplateOps /\ ~HasName(load(file), last'.name)) =>
          /\ last'.result = "not_found"
          /\ tokenCalls' = tokenCalls
          /\ apiCalls' = apiCalls
          /\ sent' = NoSent
          /\ token' = token]_vars

\* C6 witness: create_from_template found no template while the cached
\* token was expired, and nothing was sent
NotFoundWithExpiredToken ==
    /\ last.op = "create_invoice"
    /\ last.result = "not_found"
    /\ ~HasName(load(file), last.name)
    /\ token # NoToken
    /\ now >= token.expires_at
    /\ tokenCalls = 1
    /\ apiCalls = 0
    /\ sent = NoSent

\* the stored template called n
Stored(f, n) == CHOOSE t \in Elems(load(f)) : t.name = n

\* C7: the body sent by book_from_template / create_from_template is the
\* top-level merge of the template payload with the overrides: every
\* override key has the override's value, every template key not in the
\* overrides keeps the template's value, there are no other keys; with no
\* overrides the body equals the template payload; the stored template read
\* back after the call is unchanged.
BodyIsTopLevelMerge ==
    [][(apiCalls' > apiCalls /\ last'.op \in FromTemplateOps) =>
          LET payload == Stored(file, last'.name).payload
              over == last'.overrides.dict
              body == sent'.body
          IN /\ sent'.endpoint = last'.op
             /\ Keys(body) = Keys(payload) \cup Keys(over)
             /\ Cardinality(body) = Cardinality(Keys(body))
             /\ \A k \in Keys(over) : Lookup(body, k) = Lookup(over, k)
             /\ \A k \in Keys(payload) \ Keys(over) :
                   Lookup(body, k) = Lookup(payload, k)
             /\ ~last'.overrides.some => body = payload
             /\ Readable(file')
             /\ Stored(file', last'.name).payload = payload
             /\ load(file') = load(file)]_vars

\* C7 witness: the template {a: 1, b: 2} booked with overrides {b: 3, c: 4}
\* went out as {a: 1, b: 3, c: 4}
MergedBodySent ==
    /\ last.op = "book_appointment"
    /\ last.overrides = Some(OverrideBC)
    /\ apiCalls = 1
    /\ sent.body = {<<"a", Num(1)>>, <<"b", Num(3)>>, <<"c", Num(4)>>}
    /\ Stored(file, last.name).payload = PayloadAB

(***************************************************************************)
(* Property of the file under concurrent readers, checked under SpecConc.  *)
(***************************************************************************)
\* C10: a list() or get() that another process runs at any point while an
\* add, remove or store initialisation is in progress observes either the
\* complete collection from before the mutation or the complete collection
\* after it, never an empty, truncated or partially written file.
ReadersSeeWholeCollection ==
    obs.kind # "none" =>
        /\ obs.kind = "ok"
        /\ obs.templates \in {obs.pre, obs.post}


(***************************************************************************)
(* Token acquisition, checked under SpecClient.                            *)
(***************************************************************************)
\* a step of get_access_token or of an API request
TokenAccess ==
    /\ ticks' = ticks
    /\ last'.op \in {"get_access_token", "list_appointments"}

\* C11: after every successful token request (the Absent to Valid
\* transition in _ensure_token), for every expires_in value the token
\* endpoint may return, the client holds a cached credential in state Valid
\* (now < expires_at), so that an immediately following access returns that
\* same token without another token-endpoint call.
IssuedTokenIsValid ==
    [][(TokenAccess /\ tokenCalls' = tokenCalls + 1
                    /\ token'.access_token = tokenCalls') =>
          /\ now < token'.expires_at
          /\ is_valid(token', now)]_vars

\* a token-endpoint attempt was made and no token issued by it is cached
TokenRequestFailed ==
    /\ TokenAccess
    /\ tokenCalls' > tokenCalls
    /\ token'.access_token # tokenCalls'

\* C12: when token acquisition fails during an API call or get_access_token
\* (non-success status, transport failure, or a response without an access
\* token), the operation fails with an error surfaced to the caller after
\* exactly one token-endpoint attempt (no retry), the API request is never
\* sent, and the client does not hold a valid credential afterwards.
FailedTokenRequestSendsNothing ==
    [][TokenRequestFailed =>
          /\ last'.result \in {"HTTPError", "ConnectionError", "KeyError"}
          /\ last'.token = 0
          /\ tokenCalls' = tokenCalls + 1
          /\ apiCalls' = apiCalls
          /\ sent' = NoSent
          /\ now' = now
          /\ ~(token' # NoToken /\ now' < token'.expires_at)]_vars

\* C12 witness: an API request found the cached token expired, the token
\* endpoint refused, and the request was not sent
RequestFailedOnTokenRefusal ==
    /\ last.op = "list_appointments"
    /\ last.result = "HTTPError"
    /\ last.token = 0
    /\ tokenCalls = 2
    /\ apiCalls = 0
    /\ sent = NoSent
    /\ token.access_token = 1
    /\ now >= token.expires_at

=============================================================================
